---- MODULE Spec2Model ----
(***************************************************************************)
(* A model of the research workflow (modules/workflow_setup.py,            *)
(* modules/workflow_nodes.py, main.py) and of its token bucket             *)
(* (modules/rate_limiter.py).                                              *)
(*                                                                         *)
(* Six state machines share this module:                                   *)
(*   Spec / LiveSpec  one run of the compiled graph, stage by stage;       *)
(*   DecideSpec       should_continue applied to arbitrary inputs;         *)
(*   DedupSpec        tool_node's loop over one tool's results;            *)
(*   EstimateSpec     the cost rate_limited_execute computes for a call;   *)
(*   GateSpec / GateLiveSpec                                               *)
(*                    concurrent callers of TokenBucket.consume;           *)
(*   ExecSpec         concurrent callers of rate_limited_execute.          *)
(***************************************************************************)
EXTENDS Integers, Sequences, FiniteSets, TLC

VARIABLES
    \* ---- ResearchState (modules/models.py), the graph's channels
    node,        \* the stage the engine runs next, "END", or "aborted"
    iteration,   \* state['iteration']
    messages,    \* state['messages']
    documents,   \* state['documents'] : url -> document record
    RAG_docs,    \* state['RAG_docs']  : url -> document record
    report,      \* state['report'], a sequence of text blocks (<<>> is "")
    \* ---- locals of the running tool_node invocation
    tc_idx,      \* position of the for loop over tool_calls
    msgs,        \* msgs
    docs_str,    \* docs_str
    \* ---- the file system as generate_pdf sees it
    pdf_exists,  \* os.path.exists(full_path) for this run's file
    \* ---- history of the run (not read by the program)
    toolsRuns,     \* completed executions of tool_node
    researchRuns,  \* completed executions of research_model
    allToolCalls,  \* every research response so far had non-empty tool_calls
    labels,        \* the labels should_continue returned, in order
    firstKind,     \* what the first research response was ("none" before)
    all_empty,     \* every tool call served since the latest research execution
                   \* returned an empty list of results
    llm_calls,     \* calls of a model's ainvoke issued by the stages so far
    chose_unknown, \* the curation model selected a url that documents lacks
    stages,        \* the stages that have completed an execution, in order
    curate_outcome, \* how select_and_process ended ("none" before it has run)
    write_outcome, \* "returned" or "raised" once write_report has run
    \* ---- should_continue as a function (DecideSpec)
    sc_iteration, sc_last_msg, sc_label,
    \* ---- the duplicate check of tool_node as a function (DedupSpec)
    dd_before,   \* docs before the loop over new_docs
    dd_new_docs, \* new_docs
    dd_docs,     \* docs
    dd_done,     \* the loop over new_docs has run
    \* ---- the cost rate_limited_execute computes, as a function (EstimateSpec)
    est_chars,      \* len(str(msg.content)) of each message of kwargs['messages']
    est_max_tokens, \* kwargs' max_tokens: [given |-> FALSE] or a number given
    est_parts,      \* groq_token_estimator(msg.content) of each message
    est_total,      \* total_tokens, -1 before it is computed
    \* ---- TokenBucket (GateSpec)
    tokens, last_update, lock, now,
    cpc,         \* where each caller is in consume: "idle", "waiting", "sleeping"
    ccost,       \* the cost of each caller's call in progress
    wait_time,   \* wait_time of the sleeping caller, in ticks
    sleep_from,  \* when the sleeping caller went to sleep
    refilled,    \* history: the level right after the latest refill step
    clipped,     \* history: the latest refill step was cut at the capacity
    burst_cost,  \* history: total cost of the calls admitted to the lock so far
    last_return, \* history: the latest call that returned
    admitted,    \* history: total cost of the calls that have returned
    \* ---- rate_limited_execute (ExecSpec)
    via_execute, \* the callers call consume through rate_limited_execute
    in_call,     \* the callers whose model_call is in progress
    last_outcome \* history: how the latest model_call ended ("none" before)

wfVars == <<node, iteration, messages, documents, RAG_docs, report,
            tc_idx, msgs, docs_str, pdf_exists,
            toolsRuns, researchRuns, allToolCalls, labels, firstKind,
            all_empty, llm_calls, chose_unknown, stages, curate_outcome,
            write_outcome>>
decVars == <<sc_iteration, sc_last_msg, sc_label,
             dd_before, dd_new_docs, dd_docs, dd_done,
             est_chars, est_max_tokens, est_parts, est_total>>
gateVars == <<tokens, last_update, lock, now, cpc, ccost, wait_time, sleep_from,
              refilled, clipped, burst_cost, last_return, admitted,
              via_execute, in_call, last_outcome>>
vars == <<wfVars, decVars, gateVars>>

(***************************************************************************)
(* Bounds of the model.                                                    *)
(***************************************************************************)
MaxToolCalls == 2   \* tool calls in one research response
MaxResults == 2     \* documents one search returns
MaxNewDocs == 3     \* results of one tool call, for the duplicate check alone
MaxChars == 15      \* characters of one message's content
MaxMessages == 2    \* messages of one guarded call
RunCap == 8         \* research executions explored in one run
MaxIterInput == 8   \* largest iteration should_continue is applied to
NumCallers == 2     \* concurrent callers of consume
MaxTime == 3         \* callers arrive until the clock reads this, in ticks
SmallCost == 3      \* a cost a full bucket covers several times

(***************************************************************************)
(* Text.  A text is a sequence of words; a word keeps its letters (w) and  *)
(* its letter case (c).  str.lower() folds the case and keeps the letters; *)
(* `in` on strings is the search for a contiguous run of equal words.      *)
(***************************************************************************)
Cases == {"lower", "upper", "title"}

Word(w, c) == [w |-> w, c |-> c]

Say(ws, c) == [i \in 1..Len(ws) |-> Word(ws[i], c)]

LowerNoFold(text) == text

Lower(text) == [i \in 1..Len(text) |-> Word(text[i].w, "lower")]

Contains(text, phrase) ==
    \E i \in 0..(Len(text) - Len(phrase)) :
        \A j \in 1..Len(phrase) : text[i + j] = phrase[j]

\* "gathered enough information"
CompletionPhrase == Say(<<"gathered", "enough", "information">>, "lower")

(***************************************************************************)
(* Messages.                                                               *)
(***************************************************************************)
Message(type, content, tool_calls) ==
    [type |-> type, content |-> content, tool_calls |-> tool_calls]

HumanMessage(content) == Message("human", content, <<>>)
AIMessage(content) == Message("ai", content, <<>>)
ToolMessage(content) == Message("tool", content, <<>>)

\* tools_by_name = {tool.name: tool for tool in tools}
tools_by_name == {"tavily_search"}

\* What the research model can ask for: a registered or an unregistered tool,
\* with arguments that pass TavilySearchInput's validation or do not.
ToolCalls == { [name |-> "tavily_search", args |-> "valid"],
               [name |-> "tavily_search", args |-> "invalid"],
               [name |-> "no_such_tool", args |-> "valid"] }

SeqsUpTo(S, n) == UNION { [1..k -> S] : k \in 0..n }

ToolCallLists == SeqsUpTo(ToolCalls, MaxToolCalls)

Contents ==
    { <<>>,
      Say(<<"i", "have", "gathered", "enough", "information">>, "lower"),
      Say(<<"i", "have", "gathered", "enough", "information">>, "upper"),
      Say(<<"gathered", "enough", "information", "now">>, "title"),
      <<Word("gathered", "upper"), Word("enough", "lower"), Word("information", "title")>>,
      Say(<<"gathered", "enough">>, "lower"),
      Say(<<"gathered", "more", "information">>, "lower") }

\* The messages model.ainvoke can return in research_model.
Responses == { Message("ai", c, tcs) : c \in Contents, tcs \in ToolCallLists }

\* The ones a run is explored with: no text, the phrase in mixed case, and a
\* text without the phrase, each with every list of tool calls.
RunContents ==
    { <<>>,
      <<Word("gathered", "upper"), Word("enough", "lower"), Word("information", "title")>>,
      Say(<<"gathered", "more", "information">>, "lower") }

RunResponses == { r \in Responses : r.content \in RunContents }

\* f"Error in research_model: {str(e)}"
ResearchError == AIMessage(Say(<<"error", "in", "research_model">>, "title"))

(***************************************************************************)
(* Documents.                                                              *)
(***************************************************************************)
HttpUrls == {"http://a", "http://b"}
OtherUrls == {"ftp://c"}
Urls == HttpUrls \cup OtherUrls
Titles == {"t1", "t2"}

\* One search result, as stored in state['documents'].
Doc(url, title) == [url |-> url, title |-> title, raw_content |-> "none"]

Docs == { Doc(u, t) : u \in HttpUrls, t \in Titles }

SearchResults == SeqsUpTo(Docs, MaxResults)

EmptyMap == [u \in {} |-> Doc(u, "t1")]

(***************************************************************************)
(* The engine's merge of a stage's returned update.  ResearchState gives   *)
(* no field a reducer (messages is Annotated[..., ...], and an Ellipsis is *)
(* not one), so every field the update names takes the update's value and  *)
(* every other field keeps its own.                                        *)
(***************************************************************************)
Merged(f, upd, old) == IF f \in DOMAIN upd THEN upd[f] ELSE old

\* The merge of update upd; docsNow is state['documents'] as the stage left
\* it (a stage that changes the dictionary in place changes the state's own).
Apply(upd, docsNow) ==
    /\ messages' = Merged("messages", upd, messages)
    /\ documents' = Merged("documents", upd, docsNow)
    /\ RAG_docs' = Merged("RAG_docs", upd, RAG_docs)
    /\ report' = Merged("report", upd, report)
    /\ iteration' = Merged("iteration", upd, iteration)

(***************************************************************************)
(* should_continue and the graph's edges.                                  *)
(***************************************************************************)
MaxIterations == 5

should_continue_CapLast(it, last_msg) ==
    IF last_msg.tool_calls # <<>> THEN "tools"
    ELSE IF it >= MaxIterations THEN "curate"
    ELSE IF Contains(Lower(last_msg.content), CompletionPhrase) THEN "curate"
    ELSE "tools"

should_continue_CapOffByOne(it, last_msg) ==
    IF it > MaxIterations THEN "curate"
    ELSE IF last_msg.tool_calls # <<>> THEN "tools"
    ELSE IF Contains(Lower(last_msg.content), CompletionPhrase) THEN "curate"
    ELSE "tools"

should_continue_PhraseFirst(it, last_msg) ==
    IF it >= MaxIterations THEN "curate"
    ELSE IF Contains(Lower(last_msg.content), CompletionPhrase) THEN "curate"
    ELSE "tools"

should_continue(it, last_msg) ==
    IF it >= MaxIterations THEN "curate"
    ELSE IF last_msg.tool_calls # <<>> THEN "tools"
    ELSE IF Contains(Lower(last_msg.content), CompletionPhrase) THEN "curate"
    ELSE "tools"

\* add_conditional_edges("research", should_continue, {...})
ResearchEdges == [tools |-> "tools", curate |-> "curate"]

\* add_node(...)
Nodes == {"research", "tools", "curate", "write", "publish"}

NextOfSkipsWrite(n) ==
    CASE n = "tools" -> "research"
      [] n = "curate" -> "publish"
      [] n = "write" -> "publish"
      [] n = "publish" -> "END"

\* add_edge(...)
NextOf(n) ==
    CASE n = "tools" -> "research"
      [] n = "curate" -> "write"
      [] n = "write" -> "publish"
      [] n = "publish" -> "END"

Last(s) == s[Len(s)]

(***************************************************************************)
(* research_model                                                          *)
(***************************************************************************)
\* What model.ainvoke does: it returns a response or it raises.
NoResponse == Message("none", <<>>, <<>>)

ModelOutcomes == { [raised |-> FALSE, response |-> r] : r \in RunResponses }
                     \cup { [raised |-> TRUE, response |-> NoResponse] }

\* What the stage returns: the model's response, or the fallback message when
\* model.ainvoke raised.
research_model(outcome) ==
    IF outcome.raised THEN [messages |-> <<ResearchError>>]
    ELSE [messages |-> <<outcome.response>>]

\* History only: whether a message asks for tools, and whether its text has
\* the words "gathered enough information" in a row, in whatever letter case.
SaysDone(content) ==
    \E i \in 0..(Len(content) - 3) :
        /\ content[i + 1].w = "gathered"
        /\ content[i + 2].w = "enough"
        /\ content[i + 3].w = "information"

Kind(msg) ==
    IF msg.tool_calls # <<>> THEN "tool_calls"
    ELSE IF SaysDone(msg.content) THEN "done"
    ELSE "other"

Research ==
    /\ node = "research"
    /\ researchRuns < RunCap
    /\ \E outcome \in ModelOutcomes :
         LET upd == research_model(outcome)
             label == should_continue(Merged("iteration", upd, iteration),
                                      Last(Merged("messages", upd, messages)))
         IN /\ Apply(upd, documents)
            /\ node' = ResearchEdges[label]
            /\ labels' = Append(labels, label)
            /\ researchRuns' = researchRuns + 1
            /\ allToolCalls' = (allToolCalls /\ Last(upd.messages).tool_calls # <<>>)
            /\ firstKind' = IF researchRuns = 0 THEN Kind(Last(upd.messages))
                            ELSE firstKind
    /\ llm_calls' = llm_calls + 1
    /\ stages' = Append(stages, "research")
    /\ all_empty' = TRUE
    /\ UNCHANGED <<tc_idx, msgs, docs_str, pdf_exists, toolsRuns,
                   chose_unknown, curate_outcome, write_outcome>>
    /\ UNCHANGED <<decVars, gateVars>>

(***************************************************************************)
(* tool_node.  The stage awaits each tool in turn, so one step of the      *)
(* model is one pass of its for loop, and the last step is its return.     *)
(* docs is state['documents'] itself (state.get returns the dictionary the *)
(* state holds), so an insertion shows in documents at once.               *)
(***************************************************************************)
\* The inner loop: insert the documents whose url is new, in order.
RECURSIVE InsertLast(_, _, _)
InsertLast(docs, new_docs, added) ==
    IF new_docs = <<>> THEN [docs |-> docs, added |-> added]
    ELSE LET doc == Head(new_docs)
         IN InsertLast([u \in DOMAIN docs \cup {doc.url} |->
                           IF u = doc.url THEN doc ELSE docs[u]],
                       Tail(new_docs), Append(added, Word(doc.url, "lower")))

RECURSIVE InsertNew(_, _, _)
InsertNew(docs, new_docs, added) ==
    IF new_docs = <<>> THEN [docs |-> docs, added |-> added]
    ELSE LET doc == Head(new_docs)
         IN IF DOMAIN docs = {} \/ doc.url \notin DOMAIN docs
            THEN InsertNew([u \in DOMAIN docs \cup {doc.url} |->
                               IF u = doc.url THEN doc ELSE docs[u]],
                           Tail(new_docs), Append(added, Word(doc.url, "lower")))
            ELSE InsertNew(docs, Tail(new_docs), added)

\* The first record of each url in a list of results.
FirstByUrl(new_docs) ==
    [u \in { new_docs[i].url : i \in 1..Len(new_docs) } |->
        new_docs[CHOOSE i \in 1..Len(new_docs) :
                   /\ new_docs[i].url = u
                   /\ \A j \in 1..(i - 1) : new_docs[j].url # u]]

\* tool.ainvoke(args) raises when the arguments do not fit the tool's schema.
ToolRaises(tool_call) ==
    \/ tool_call.name \notin tools_by_name    \* tools_by_name[...]: KeyError
    \/ tool_call.args = "invalid"             \* ainvoke: validation error

ToolCall ==
    /\ node = "tools"
    /\ tc_idx <= Len(Last(messages).tool_calls)
    /\ LET tool_call == Last(messages).tool_calls[tc_idx]
       IN IF ToolRaises(tool_call)
          THEN \* the exception leaves tool_node and ends the run
               /\ node' = "aborted"
               /\ UNCHANGED <<documents, tc_idx, msgs, docs_str, all_empty>>
          ELSE \E new_docs \in SearchResults :
                 LET r == InsertNew(documents, new_docs, docs_str)
                 IN /\ documents' = r.docs
                    /\ docs_str' = r.added
                    /\ msgs' = Append(msgs, ToolMessage(<<Word("found", "title")>> \o r.added))
                    /\ tc_idx' = tc_idx + 1
                    /\ node' = node
                    /\ all_empty' = (all_empty /\ new_docs = <<>>)
    /\ UNCHANGED <<iteration, messages, RAG_docs, report, pdf_exists,
                   toolsRuns, researchRuns, allToolCalls, labels, firstKind,
                   llm_calls, chose_unknown, stages, curate_outcome, write_outcome>>
    /\ UNCHANGED <<decVars, gateVars>>

IterationKept(it) == it

NextIterationTwice(it) == it + 2

\* state.get('iteration', 0) + 1
NextIteration(it) == it + 1

tool_node_NewOnly(docs) ==
    [messages |-> msgs,
     documents |-> [u \in { docs_str[i].w : i \in 1..Len(docs_str) } |-> docs[u]],
     iteration |-> NextIteration(iteration)]

tool_node_CountsFinds(docs) ==
    [messages |-> msgs,
     documents |-> docs,
     iteration |-> IF docs_str = <<>> THEN iteration ELSE NextIteration(iteration)]

\* What the stage returns.
tool_node(docs) ==
    [messages |-> msgs, documents |-> docs, iteration |-> NextIteration(iteration)]

ToolsReturn ==
    /\ node = "tools"
    /\ tc_idx > Len(Last(messages).tool_calls)
    /\ Apply(tool_node(documents), documents)
    /\ node' = NextOf("tools")
    /\ tc_idx' = 1
    /\ msgs' = <<>>
    /\ docs_str' = <<>>
    /\ toolsRuns' = toolsRuns + 1
    /\ stages' = Append(stages, "tools")
    /\ UNCHANGED <<pdf_exists, researchRuns, allToolCalls, labels, firstKind,
                   all_empty, llm_calls, chose_unknown, curate_outcome, write_outcome>>
    /\ UNCHANGED <<decVars, gateVars>>

(***************************************************************************)
(* select_and_process                                                      *)
(***************************************************************************)
\* f"Error curating documents: {str(e)}"
CurateError == AIMessage(Say(<<"error", "curating", "documents">>, "title"))

CurateMessage == AIMessage(Say(<<"curating", "documents">>, "title"))

FilterNone(docs, relevant_urls) ==
    [url \in relevant_urls |-> IF url \in DOMAIN docs THEN docs[url] ELSE Doc(url, "t1")]

\* {url: state['documents'][url] for url in relevant_urls if url in state['documents']}
FilterDocuments(docs, relevant_urls) ==
    [url \in relevant_urls \cap DOMAIN docs |-> docs[url]]

\* RAG_docs[url]['raw_content'] = item['raw_content'], for the extracted urls
\* that are keys of d.
WithRawContent(d, extracted) ==
    [url \in DOMAIN d |->
        IF url \in extracted THEN [d[url] EXCEPT !.raw_content = "raw"] ELSE d[url]]

\* What the two collaborators can do: the selection raises, or returns urls
\* (any, also ones never retrieved); the extraction raises, or returns the
\* raw content of some of the urls it was given.
ExtractFailedKeepsSelection(selected) ==
    [messages |-> <<CurateError>>, RAG_docs |-> selected]

\* except Exception of the extraction: only the error message is returned
ExtractFailed(selected) == [messages |-> <<CurateError>>]

CurateOutcomes ==
    { [select_raised |-> TRUE, urls |-> {}, extract_raised |-> FALSE, extracted |-> {}] }
    \cup { [select_raised |-> FALSE, urls |-> us, extract_raised |-> er, extracted |-> ex] :
             us \in SUBSET Urls, er \in BOOLEAN, ex \in SUBSET HttpUrls }

Curate ==
    /\ node = "curate"
    /\ \E o \in CurateOutcomes :
         LET valid_urls == o.urls \cap HttpUrls      \* url.startswith('http')
             extracting == ~o.select_raised /\ valid_urls # {}
             selected == FilterDocuments(documents, o.urls)
             got == IF extracting THEN o.extracted \cap valid_urls ELSE {}
         IN /\ o.extracted \subseteq valid_urls
            /\ o.extract_raised => extracting
            /\ chose_unknown' = (o.urls \ DOMAIN documents # {})
            /\ curate_outcome' = IF o.select_raised THEN "select_raised"
                                  ELSE IF o.extract_raised THEN "extract_raised"
                                  ELSE "selected"
            /\ IF o.select_raised
               THEN Apply([messages |-> <<CurateError>>], documents)
               ELSE \* the records of RAG_docs are the records of documents:
                    \* writing raw_content into one writes it into the other,
                    \* also when the loop over the results raises later on
                    IF o.extract_raised
                    THEN Apply(ExtractFailed(selected),
                               WithRawContent(documents, got \cap DOMAIN selected))
                    ELSE Apply([messages |-> <<CurateMessage>>,
                                RAG_docs |-> WithRawContent(selected, got)],
                               WithRawContent(documents, got \cap DOMAIN selected))
    /\ node' = NextOf("curate")
    /\ llm_calls' = llm_calls + 1
    /\ stages' = Append(stages, "curate")
    /\ UNCHANGED <<tc_idx, msgs, docs_str, pdf_exists,
                   toolsRuns, researchRuns, allToolCalls, labels, firstKind,
                   all_empty, write_outcome>>
    /\ UNCHANGED <<decVars, gateVars>>

(***************************************************************************)
(* write_report                                                            *)
(***************************************************************************)
Block(kind, text) == [kind |-> kind, text |-> text]

\* The text of the model's answer: "" is no block at all.
AnswerText(answer) == IF answer = "" THEN <<>> ELSE <<Block("answer", answer)>>

\* doc.get('title', citation.source_id) with doc = state['RAG_docs'].get(source_id, {})
CitationTitle(source_id) ==
    IF source_id \in DOMAIN RAG_docs THEN RAG_docs[source_id].title ELSE source_id

CitationLines(citations) ==
    [i \in 1..Len(citations) |-> Block("citation", CitationTitle(citations[i]))]

FullReportNoHeading(answer, citations) ==
    AnswerText(answer) \o CitationLines(citations)

\* full_report = response.answer + "\n\n### Citations\n" + one line per citation
FullReport(answer, citations) ==
    AnswerText(answer) \o <<Block("heading", "### Citations")>> \o CitationLines(citations)

WriteOutcomes ==
    { [raised |-> TRUE, answer |-> "", citations |-> <<>>] }
    \cup { [raised |-> FALSE, answer |-> a, citations |-> cs] :
             a \in {"", "text"}, cs \in SeqsUpTo(Urls, 1) }

write_report(o) ==
    IF o.raised
    THEN [messages |-> <<AIMessage(Say(<<"error", "generating", "report">>, "title"))>>]
    ELSE [messages |-> <<AIMessage(Say(<<"generated", "report">>, "title"))>>,
          report |-> FullReport(o.answer, o.citations)]

Write ==
    /\ node = "write"
    /\ \E o \in WriteOutcomes :
         /\ Apply(write_report(o), documents)
         /\ write_outcome' = IF o.raised THEN "raised" ELSE "returned"
    /\ node' = NextOf("write")
    /\ llm_calls' = llm_calls + 1
    /\ stages' = Append(stages, "write")
    /\ UNCHANGED <<tc_idx, msgs, docs_str, pdf_exists,
                   toolsRuns, researchRuns, allToolCalls, labels, firstKind,
                   all_empty, chose_unknown, curate_outcome>>
    /\ UNCHANGED <<decVars, gateVars>>

(***************************************************************************)
(* generate_pdf                                                            *)
(***************************************************************************)
\* generate_pdf_from_md returns a text and leaves a file or not: pdfkit writes
\* the file ("pdfkit"), or pdfkit fails and the FPDF fallback writes it
\* ("fallback"), or both fail and there is no file ("failed"), or both fail
\* and the file is there all the same, left by pdfkit before it raised
\* ("partial"); "raised" is an exception inside generate_pdf's try block.
RenderOutcomes == {"pdfkit", "fallback", "failed", "partial", "raised"}

PdfMessage(text) == AIMessage(Say(<<text>>, "title"))

generate_pdf_ClearsReport(rep, outcome) ==
    [written |-> outcome \in {"pdfkit", "fallback"},
     upd |-> [messages |-> <<PdfMessage("pdf generated")>>, report |-> <<>>]]

generate_pdf(rep, outcome) ==
    IF rep = <<>>
    THEN [written |-> FALSE, upd |-> [messages |-> <<PdfMessage("no report content")>>]]
    ELSE IF outcome = "raised"
    THEN [written |-> FALSE, upd |-> [messages |-> <<PdfMessage("error generating pdf")>>]]
    ELSE IF outcome = "failed"
    THEN [written |-> FALSE, upd |-> [messages |-> <<PdfMessage("output file not found")>>]]
    ELSE IF outcome = "partial"
    THEN \* os.path.exists(full_path): the message is msg, here the error text
         [written |-> TRUE, upd |-> [messages |-> <<PdfMessage("error generating pdf")>>]]
    ELSE [written |-> TRUE, upd |-> [messages |-> <<PdfMessage("pdf generated")>>]]

Publish ==
    /\ node = "publish"
    /\ \E outcome \in RenderOutcomes :
         LET r == generate_pdf(report, outcome)
         IN /\ Apply(r.upd, documents)
            /\ pdf_exists' = r.written
    /\ node' = NextOf("publish")
    /\ stages' = Append(stages, "publish")
    /\ UNCHANGED <<tc_idx, msgs, docs_str,
                   toolsRuns, researchRuns, allToolCalls, labels, firstKind,
                   all_empty, llm_calls, chose_unknown, curate_outcome, write_outcome>>
    /\ UNCHANGED <<decVars, gateVars>>

(***************************************************************************)
(* One run: run_workflow builds the state and streams the compiled graph.  *)
(***************************************************************************)
WfInit ==
    /\ node = "research"                  \* set_entry_point("research")
    /\ iteration = 0
    /\ messages = <<HumanMessage(Say(<<"research", "initialized">>, "title"))>>
    /\ documents = EmptyMap
    /\ RAG_docs = EmptyMap
    /\ report = <<>>
    /\ tc_idx = 1
    /\ msgs = <<>>
    /\ docs_str = <<>>
    /\ pdf_exists = FALSE
    /\ toolsRuns = 0
    /\ researchRuns = 0
    /\ allToolCalls = TRUE
    /\ labels = <<>>
    /\ firstKind = "none"
    /\ all_empty = TRUE
    /\ llm_calls = 0
    /\ chose_unknown = FALSE
    /\ stages = <<>>
    /\ curate_outcome = "none"
    /\ write_outcome = "none"

(***************************************************************************)
(* should_continue applied to any iteration and any last message.          *)
(***************************************************************************)
ScIdle ==
    /\ sc_iteration = 0
    /\ sc_last_msg = NoResponse
    /\ sc_label = "none"

DdIdle ==
    /\ dd_before = EmptyMap
    /\ dd_new_docs = <<>>
    /\ dd_docs = EmptyMap
    /\ dd_done = TRUE

EstIdle ==
    /\ est_chars = <<>>
    /\ est_max_tokens = [given |-> FALSE, value |-> 0]
    /\ est_parts = <<>>
    /\ est_total = 0

DecIdle == ScIdle /\ DdIdle /\ EstIdle

DecInit ==
    /\ sc_iteration \in 0..MaxIterInput
    /\ sc_last_msg \in Responses \cup {ResearchError}
    /\ sc_label = "none"
    /\ DdIdle
    /\ EstIdle

Decide ==
    /\ sc_label = "none"
    /\ sc_label' = should_continue(sc_iteration, sc_last_msg)
    /\ UNCHANGED <<sc_iteration, sc_last_msg, dd_before, dd_new_docs, dd_docs, dd_done>>
    /\ UNCHANGED <<est_chars, est_max_tokens, est_parts, est_total>>
    /\ UNCHANGED <<wfVars, gateVars>>

(***************************************************************************)
(* The loop of tool_node over one tool's results, applied to any documents *)
(* the run can hold and any list of results.                               *)
(***************************************************************************)
\* What state['documents'] can be when a tool call returns: every key is the
\* url of its record.
DocMaps ==
    UNION { { m \in [us -> Docs] : \A u \in us : m[u].url = u } : us \in SUBSET HttpUrls }

DdInit ==
    /\ dd_before \in DocMaps
    /\ dd_new_docs \in SeqsUpTo(Docs, MaxNewDocs)
    /\ dd_docs = dd_before
    /\ dd_done = FALSE
    /\ ScIdle
    /\ EstIdle

Dedup ==
    /\ ~dd_done
    /\ dd_docs' = InsertNew(dd_docs, dd_new_docs, <<>>).docs
    /\ dd_done' = TRUE
    /\ UNCHANGED <<dd_before, dd_new_docs, sc_iteration, sc_last_msg, sc_label>>
    /\ UNCHANGED <<est_chars, est_max_tokens, est_parts, est_total>>
    /\ UNCHANGED <<wfVars, gateVars>>

(***************************************************************************)
(* The cost rate_limited_execute passes to consume, for any messages and   *)
(* any max_tokens.                                                         *)
(***************************************************************************)
Max(a, b) == IF a >= b THEN a ELSE b

estimator_RoundsUp(chars) == Max(1, (chars * 10 + 34) \div 35)

\* max(1, int(len(str(text)) / 3.5)): int() cuts the fraction off
groq_token_estimator(chars) == Max(1, (chars * 10) \div 35)

DefaultMaxTokens == 2000

\* kwargs.get('max_tokens', 2000)
output_tokens(max_tokens) ==
    IF max_tokens.given THEN max_tokens.value ELSE DefaultMaxTokens

RECURSIVE Sum(_)
Sum(s) == IF s = <<>> THEN 0 ELSE Head(s) + Sum(Tail(s))

MaxTokensValues == {0, 1, 500}

EstInit ==
    /\ est_chars \in SeqsUpTo(0..MaxChars, MaxMessages)
    /\ est_max_tokens \in { [given |-> FALSE, value |-> 0] }
                            \cup { [given |-> TRUE, value |-> v] : v \in MaxTokensValues }
    /\ est_parts = <<>>
    /\ est_total = -1
    /\ ScIdle
    /\ DdIdle

Estimate ==
    /\ est_total = -1
    /\ est_parts' = [i \in 1..Len(est_chars) |-> groq_token_estimator(est_chars[i])]
    /\ est_total' = Sum(est_parts') + output_tokens(est_max_tokens)
    /\ UNCHANGED <<est_chars, est_max_tokens>>
    /\ UNCHANGED <<sc_iteration, sc_last_msg, sc_label>>
    /\ UNCHANGED <<dd_before, dd_new_docs, dd_docs, dd_done>>
    /\ UNCHANGED <<wfVars, gateVars>>

(***************************************************************************)
(* TokenBucket.  Time is counted in ticks, TicksPerSecond to the second;   *)
(* with as many ticks to the second as tokens refilled per second, levels  *)
(* and waits are whole numbers.  The bucket is the one of the              *)
(* specification's scenario: TokenBucket(10, 5).                           *)
(***************************************************************************)
capacity == 10
refill_rate == 5
TicksPerSecond == refill_rate

Callers == 1..NumCallers
NoCaller == 0

\* The costs callers ask for: nothing, a little, the whole bucket, more than it.
Costs == {0, SmallCost, capacity, capacity + 2}

Min(a, b) == IF a <= b THEN a ELSE b

RefillNoCap(level, elapsed) == level + (elapsed * refill_rate) \div TicksPerSecond

\* min(self.capacity, self.tokens + elapsed * self.refill_rate)
Refill(level, elapsed) ==
    Min(capacity, level + (elapsed * refill_rate) \div TicksPerSecond)

WaitPerCapacity(deficit) == (deficit * TicksPerSecond) \div capacity

\* wait_time = deficit / self.refill_rate, in ticks
WaitTicks(deficit) == (deficit * TicksPerSecond) \div refill_rate

DeductTwice(level, cost) == level - 2 * cost

\* self.tokens -= tokens
Deduct(level, cost) == level - cost

LockIgnored == TRUE

\* async with self.lock: a caller passes when no caller holds the lock.
CanAcquire == lock = NoCaller

LevelKeptAfterSleep(level) == level

\* self.tokens = 0 after the sleep
LevelAfterSleep(level) == 0

LockDroppedForSleep(p) == NoCaller

\* await asyncio.sleep(wait_time) is inside the async with block: the
\* sleeping caller keeps the lock.
LockDuringSleep(p) == p

ReleaseForgotten(p) == p

\* Leaving the async with block releases the lock.
Release(p) == NoCaller

Returned(cost, slept) == [cost |-> cost, at |-> now, slept |-> slept]

\* await token_bucket.consume(total_tokens) has returned:
\* rate_limited_execute goes on to await model_call(*args, **kwargs).
Started(p) == IF via_execute THEN in_call \cup {p} ELSE in_call

GateInit ==
    /\ tokens = capacity
    /\ last_update = 0
    /\ lock = NoCaller
    /\ now = 0
    /\ cpc = [p \in Callers |-> "idle"]
    /\ ccost = [p \in Callers |-> 0]
    /\ wait_time = [p \in Callers |-> 0]
    /\ sleep_from = [p \in Callers |-> 0]
    /\ refilled = capacity
    /\ clipped = FALSE
    /\ burst_cost = 0
    /\ last_return = [cost |-> 0, at |-> 0, slept |-> FALSE]
    /\ admitted = 0
    /\ via_execute = FALSE
    /\ in_call = {}
    /\ last_outcome = "none"

\* A caller calls consume(cost) and reaches the lock.  Callers arrive until
\* the clock reads MaxTime.
Call(p) ==
    /\ cpc[p] = "idle"
    /\ p \notin in_call
    /\ now < MaxTime
    /\ \E cost \in Costs : ccost' = [ccost EXCEPT ![p] = cost]
    /\ cpc' = [cpc EXCEPT ![p] = "waiting"]
    /\ UNCHANGED <<tokens, last_update, lock, now, wait_time, sleep_from,
                   refilled, clipped, burst_cost, last_return, admitted>>
    /\ UNCHANGED <<via_execute, in_call, last_outcome>>
    /\ UNCHANGED <<wfVars, decVars>>

\* The caller takes the lock, refills and compares: it deducts and returns,
\* or goes to sleep for the deficit with the lock held.  The callers are
\* coroutines of one event loop: a caller runs alone from one await to the
\* next, so a step ends at the lock (when it is taken), at asyncio.sleep, or
\* at the return.  Which waiting caller passes next is left open.
Admit(p) ==
    /\ cpc[p] = "waiting"
    /\ CanAcquire
    /\ LET level == Refill(tokens, now - last_update)
       IN /\ refilled' = level
          /\ clipped' = (tokens + ((now - last_update) * refill_rate) \div TicksPerSecond
                             > capacity)
          /\ last_update' = now
          /\ burst_cost' = Min(burst_cost + ccost[p], capacity + 1)
          /\ IF level >= ccost[p]
             THEN /\ tokens' = Deduct(level, ccost[p])
                  /\ cpc' = [cpc EXCEPT ![p] = "idle"]
                  /\ ccost' = [ccost EXCEPT ![p] = 0]
                  /\ last_return' = Returned(ccost[p], FALSE)
                  /\ admitted' = admitted + ccost[p]
                  /\ in_call' = Started(p)
                  /\ UNCHANGED <<lock, wait_time, sleep_from>>
             ELSE /\ tokens' = level
                  /\ lock' = LockDuringSleep(p)
                  /\ cpc' = [cpc EXCEPT ![p] = "sleeping"]
                  /\ wait_time' = [wait_time EXCEPT ![p] = WaitTicks(ccost[p] - level)]
                  /\ sleep_from' = [sleep_from EXCEPT ![p] = now]
                  /\ UNCHANGED <<ccost, last_return, admitted, in_call>>
    /\ UNCHANGED <<now, via_execute, last_outcome>>
    /\ UNCHANGED <<wfVars, decVars>>

\* asyncio.sleep(wait_time) is over; the caller zeroes the level, releases
\* the lock and returns.
Wake(p) ==
    /\ cpc[p] = "sleeping"
    /\ now >= sleep_from[p] + wait_time[p]
    /\ tokens' = LevelAfterSleep(tokens)
    /\ last_update' = now
    /\ lock' = Release(p)
    /\ cpc' = [cpc EXCEPT ![p] = "idle"]
    /\ ccost' = [ccost EXCEPT ![p] = 0]
    /\ wait_time' = [wait_time EXCEPT ![p] = 0]
    /\ sleep_from' = [sleep_from EXCEPT ![p] = 0]
    /\ last_return' = Returned(ccost[p], TRUE)
    /\ admitted' = admitted + ccost[p]
    /\ in_call' = Started(p)
    /\ UNCHANGED <<now, refilled, clipped, burst_cost, via_execute, last_outcome>>
    /\ UNCHANGED <<wfVars, decVars>>

\* A sleeper whose asyncio.sleep is not over yet.
Pending(p) == cpc[p] = "sleeping" /\ now < sleep_from[p] + wait_time[p]

\* time.time() moves on: up to MaxTime, and beyond it for as long as a sleep
\* is not over.
Tick ==
    /\ now < MaxTime \/ \E p \in Callers : Pending(p)
    /\ now' = now + 1
    /\ UNCHANGED <<tokens, last_update, lock, cpc, ccost, wait_time, sleep_from,
                   refilled, clipped, burst_cost, last_return, admitted,
                   via_execute, in_call, last_outcome>>
    /\ UNCHANGED <<wfVars, decVars>>

\* What the bucket is after a model_call that ended, raising or not:
\* rate_limited_execute has no code after the call.
RefundOnRaise(level, raised) ==
    IF raised THEN Min(capacity, level + 1) ELSE level

AfterCall(level, raised) == level

\* model_call returns or raises; either way rate_limited_execute is over.
ModelCall(p) ==
    /\ p \in in_call
    /\ \E raised \in BOOLEAN :
         /\ tokens' = AfterCall(tokens, raised)
         /\ last_outcome' = IF raised THEN "raised" ELSE "returned"
    /\ in_call' = in_call \ {p}
    /\ UNCHANGED <<last_update, lock, now, cpc, ccost, wait_time, sleep_from,
                   refilled, clipped, burst_cost, last_return, admitted,
                   via_execute>>
    /\ UNCHANGED <<wfVars, decVars>>

\* rate_limited_execute called by every caller.
ExecInit ==
    /\ tokens = capacity
    /\ last_update = 0
    /\ lock = NoCaller
    /\ now = 0
    /\ cpc = [p \in Callers |-> "idle"]
    /\ ccost = [p \in Callers |-> 0]
    /\ wait_time = [p \in Callers |-> 0]
    /\ sleep_from = [p \in Callers |-> 0]
    /\ refilled = capacity
    /\ clipped = FALSE
    /\ burst_cost = 0
    /\ last_return = [cost |-> 0, at |-> 0, slept |-> FALSE]
    /\ admitted = 0
    /\ via_execute = TRUE
    /\ in_call = {}
    /\ last_outcome = "none"

ExecNext == Tick \/ \E p \in Callers : Call(p) \/ Admit(p) \/ Wake(p) \/ ModelCall(p)

GateNext == Tick \/ \E p \in Callers : Call(p) \/ Admit(p) \/ Wake(p)

(***************************************************************************)
(* The specifications.                                                     *)
(***************************************************************************)
Init == WfInit /\ DecIdle /\ GateInit

Next == Research \/ ToolCall \/ ToolsReturn \/ Curate \/ Write \/ Publish

Spec == Init /\ [][Next]_vars

\* Every stage invocation returns and the engine runs the next stage.
LiveSpec == Spec /\ WF_vars(Next)

DecideInit == WfInit /\ DecInit /\ GateInit

DecideSpec == DecideInit /\ [][Decide]_vars

DedupInit == WfInit /\ DdInit /\ GateInit

DedupSpec == DedupInit /\ [][Dedup]_vars

EstimateInit == WfInit /\ EstInit /\ GateInit

EstimateSpec == EstimateInit /\ [][Estimate]_vars

GateSpecInit == WfInit /\ DecIdle /\ GateInit

GateSpec == GateSpecInit /\ [][GateNext]_vars

\* Fair scheduling: the clock moves on, the event loop resumes a sleeper whose
\* sleep is over, and hands a free lock to a caller waiting for it.
ExecSpecInit == WfInit /\ DecIdle /\ ExecInit

ExecSpec == ExecSpecInit /\ [][ExecNext]_vars

GateLiveSpec ==
    /\ GateSpec
    /\ WF_vars(Tick)
    /\ \A p \in Callers : WF_vars(Admit(p)) /\ WF_vars(Wake(p))

(***************************************************************************)
(* The run of the graph.                                                   *)
(***************************************************************************)
Finished == node \in {"END", "aborted"}

LeftLoop == node \in {"curate", "write", "publish", "END"}

\* C1: every run terminates: with every stage invocation returning and the
\* engine scheduled fairly, a run started with iteration = 0 reaches END or
\* aborts with an error, whatever the research stage returns.
C1_RunTerminates == <>Finished

C1_Witness ==
    /\ node = "END"
    /\ toolsRuns = MaxIterations
    /\ researchRuns = MaxIterations + 1

\* C3: iteration is the number of completed executions of the tools stage:
\* 0 at the start, one more after each tools execution, never less, and
\* changed by no other stage.
C3_IterationCountsTools ==
    [][ /\ (researchRuns = 0 => iteration = 0)
        /\ iteration = toolsRuns
        /\ iteration' = toolsRuns'
        /\ iteration' >= iteration
        /\ (iteration' # iteration =>
              /\ node = "tools"
              /\ node' = "research"
              /\ iteration' = iteration + 1) ]_vars

C3_Witness ==
    /\ node = "END"
    /\ toolsRuns = 3
    /\ iteration = 3

\* C4: scenario B: when every research execution returned tool calls and
\* never the completion phrase, the run is over only after the tools stage
\* has executed exactly MaxIterations times and the last transition taken
\* was "curate".
C4_ScenarioB ==
    (allToolCalls /\ researchRuns >= 1 /\ (LeftLoop \/ Finished)) =>
        /\ toolsRuns = MaxIterations
        /\ researchRuns = MaxIterations + 1
        /\ Last(labels) = "curate"

\* C5 as stated: scenario A: the first research response has no tool calls
\* and says the completion phrase; then the first transition is "curate",
\* the loop is not entered again, and iteration is 1 once the loop is left.
C5_ScenarioA_AsStated ==
    (firstKind = "done") =>
        /\ labels[1] = "curate"
        /\ LeftLoop
        /\ researchRuns = 1
        /\ toolsRuns = 0
        /\ iteration = 1

\* C5 amended: scenario A: the first research response has no tool calls
\* and says the completion phrase; then the first transition is "curate",
\* the loop is not entered again (research has run once, tools never), and
\* iteration is 0 once the loop is left.
C5_ScenarioA ==
    (firstKind = "done") =>
        /\ labels[1] = "curate"
        /\ LeftLoop
        /\ researchRuns = 1
        /\ toolsRuns = 0
        /\ iteration = 0

C5_Witness ==
    /\ firstKind = "done"
    /\ node = "END"
    /\ documents = EmptyMap

(***************************************************************************)
(* should_continue.                                                        *)
(***************************************************************************)
\* C2: should_continue returns "curate" whenever iteration >= 5, whatever
\* the last message: with or without tool calls, with or without the phrase.
C2_CapFirst ==
    (sc_label # "none" /\ sc_iteration >= 5) => sc_label = "curate"

C2_Witness ==
    /\ sc_label = "curate"
    /\ sc_iteration > 5
    /\ sc_last_msg.tool_calls # <<>>
    /\ ~SaysDone(sc_last_msg.content)

\* C6: below the cap, the first match wins: tool calls -> "tools", even when
\* the text also says the phrase; else the phrase in any letter case ->
\* "curate"; else "tools".  The label is one of the two the edge table maps
\* to a registered stage.
C6_DecisionOrder ==
    (sc_label # "none") =>
        /\ sc_iteration < 5 =>
             sc_label = IF sc_last_msg.tool_calls # <<>> THEN "tools"
                        ELSE IF SaysDone(sc_last_msg.content) THEN "curate"
                        ELSE "tools"
        /\ sc_label \in {"tools", "curate"}
        /\ sc_label \in DOMAIN ResearchEdges
        /\ ResearchEdges[sc_label] \in Nodes

C6_Witness ==
    /\ sc_label = "tools"
    /\ sc_iteration < 5
    /\ sc_last_msg.tool_calls # <<>>
    /\ SaysDone(sc_last_msg.content)

(***************************************************************************)
(* The token bucket.                                                       *)
(***************************************************************************)
Sleeping == { p \in Callers : cpc[p] = "sleeping" }

\* The caller whose Admit step this is.
Admitted(p) == cpc[p] = "waiting" /\ cpc'[p] # "waiting"

\* The caller whose Wake step this is.
Woken(p) == cpc[p] = "sleeping" /\ cpc'[p] = "idle"

\* C7: the level is within [0, capacity] right after every refill step and
\* is never negative, for every interleaving of calls with costs >= 0.
C7_LevelInRange ==
    /\ 0 <= refilled
    /\ refilled <= capacity
    /\ tokens >= 0

C7_Witness ==
    /\ clipped
    /\ refilled = capacity
    /\ burst_cost > capacity

\* C8: at most one caller at a time is between its read and its write of
\* tokens and last_update: while a caller holds the lock, no step of another
\* caller changes tokens or last_update.
C8_MutualExclusion ==
    [][ /\ Cardinality(Sleeping) <= 1
        /\ Cardinality(Sleeping') <= 1
        /\ \A p \in Sleeping : lock = p
        /\ (lock # NoCaller /\ <<tokens, last_update>>' # <<tokens, last_update>>) =>
              (lock \in Sleeping /\ lock \notin Sleeping') ]_vars

C8_Witness ==
    \E p, q \in Callers :
        /\ cpc[p] = "sleeping"
        /\ lock = p
        /\ cpc[q] = "waiting"
        /\ ccost[q] = 0
        /\ now > sleep_from[p]

\* C9: a caller whose cost the refilled level does not cover returns only
\* after at least (cost - level) / refill_rate, and on waking sets the level
\* to 0 and last_update to the current time.  With capacity 10 and 5 tokens
\* a second, consume(10) right after a consume(10) sleeps 2 seconds.
C9_SlowPath ==
    [][ \A p \in Callers :
          /\ Woken(p) =>
               /\ (now - sleep_from[p]) * refill_rate
                     >= (ccost[p] - refilled) * TicksPerSecond
               /\ tokens' = 0
               /\ last_update' = now'
          /\ (/\ Admitted(p)
              /\ capacity = 10
              /\ refill_rate = 5
              /\ ccost[p] = 10
              /\ last_return = [cost |-> 10, at |-> now, slept |-> FALSE]) =>
               /\ cpc'[p] = "sleeping"
               /\ wait_time'[p] = 2 * TicksPerSecond ]_vars

\* consume(10) returned at once; the consume(10) admitted at that same time
\* has now slept its 2 seconds.
C9_Witness ==
    \E p \in Callers :
        /\ cpc[p] = "sleeping"
        /\ ccost[p] = 10
        /\ last_return = [cost |-> 10, at |-> sleep_from[p], slept |-> FALSE]
        /\ refilled = 0
        /\ now = sleep_from[p] + 2 * TicksPerSecond

\* C10: a caller whose cost the refilled level covers has exactly its cost
\* deducted and returns in the same step, without sleeping; from a full
\* bucket, calls whose costs add up to at most the capacity never sleep.
C10_FastPath ==
    [][ \A p \in Callers :
          Admitted(p) =>
            /\ (refilled' >= ccost[p]) =>
                 /\ tokens' = refilled' - ccost[p]
                 /\ cpc'[p] = "idle"
                 /\ last_return' = [cost |-> ccost[p], at |-> now, slept |-> FALSE]
                 /\ now' = now
            /\ (burst_cost' <= capacity) => cpc'[p] = "idle" ]_vars

C10_Witness ==
    /\ burst_cost = 2 * SmallCost
    /\ tokens = capacity - 2 * SmallCost
    /\ now = 0
    /\ \A p \in Callers : cpc[p] = "idle"
    /\ last_return = [cost |-> SmallCost, at |-> 0, slept |-> FALSE]

\* C11: consume never fails: whatever the cost, the bucket's capacity
\* exceeded or not, and with callers competing for the lock, a call of
\* consume that has been made returns in the end; a caller is only ever
\* kept waiting for the lock or asleep, never turned away.
C11_ConsumeReturns ==
    \A p \in Callers : (cpc[p] # "idle") ~> (cpc[p] = "idle")

C11_Witness ==
    \E p \in Callers :
      /\ last_return = [cost |-> capacity + 2, at |-> now, slept |-> TRUE]
      /\ cpc[p] = "waiting"
      /\ ccost[p] = capacity + 2
      /\ lock = NoCaller
      /\ now > MaxTime
(***************************************************************************)
(* The stages and the bucket.                                              *)
(***************************************************************************)
\* C12: every call of a model by the research, curate and write stages comes
\* after an admission by consume on the one token bucket: a step in which a
\* stage issues such a call is a step in which the bucket admitted a call,
\* which shows in the bucket's state (last_update is set, tokens are taken).
C12_CallsAreGated ==
    [][ llm_calls' # llm_calls => gateVars' # gateVars ]_vars
(***************************************************************************)
(* The documents.                                                          *)
(***************************************************************************)
\* The records of a list of results that the loop meets with their url
\* taken: by a key of docs, or by a record earlier in the list.
Discarded(docs, new_docs) ==
    { i \in 1..Len(new_docs) :
        \/ new_docs[i].url \in DOMAIN docs
        \/ \E j \in 1..(i - 1) : new_docs[j].url = new_docs[i].url }

\* C13: the first writer wins: a result whose url is already a key of
\* documents, or is the url of an earlier result of the same list, is
\* discarded, its payload differing or not: after the loop every url that was
\* a key still maps to the record it had, every new key maps to the first
\* result with that url, and there are no other keys.
C13_FirstWriterWins ==
    dd_done =>
      /\ DOMAIN dd_docs = DOMAIN dd_before \cup DOMAIN FirstByUrl(dd_new_docs)
      /\ \A u \in DOMAIN dd_docs :
            dd_docs[u] = IF u \in DOMAIN dd_before THEN dd_before[u]
                         ELSE FirstByUrl(dd_new_docs)[u]

C13_Witness ==
    /\ dd_done
    /\ \E i, j \in Discarded(dd_before, dd_new_docs) :
          /\ dd_new_docs[i].url \in DOMAIN dd_before
          /\ dd_new_docs[i] # dd_before[dd_new_docs[i].url]
          /\ dd_new_docs[j].url \notin DOMAIN dd_before
          /\ dd_new_docs[j] # dd_docs[dd_new_docs[j].url]
\* C14: documents only grows: a url that is a key of documents is a key of
\* documents in every later state of the run, whichever stage runs.
C14_KeysStay == [][DOMAIN documents \subseteq DOMAIN documents']_vars

C14_Witness ==
    /\ node = "END"
    /\ toolsRuns >= 2
    /\ DOMAIN documents = HttpUrls
    /\ \E u \in DOMAIN documents : documents[u].raw_content = "raw"
\* C15: in every reachable state every key of RAG_docs is a key of
\* documents; a url the curation model chose that documents does not hold
\* is left out of RAG_docs.
C15_SelectedAreKnown == DOMAIN RAG_docs \subseteq DOMAIN documents

C15_Witness ==
    /\ chose_unknown
    /\ node = "write"
    /\ RAG_docs # EmptyMap
    /\ DOMAIN RAG_docs # DOMAIN documents
(***************************************************************************)
(* The message log, the report and the merge.                              *)
(***************************************************************************)
IsPrefix(s, t) == Len(s) <= Len(t) /\ SubSeq(t, 1, Len(s)) = s

\* C16: the message log is append-only: whenever a stage's update is merged,
\* the messages of before are a prefix of the messages of after; no record
\* is removed, replaced or reordered.
C16_AppendOnly == [][IsPrefix(messages, messages')]_vars
Completed(stage) == \E i \in 1..Len(stages) : stages[i] = stage

\* C17: report is empty in every state before the write stage has completed,
\* and only the write stage changes it: no step of research, tools, curate
\* or publish changes report.
C17_ReportFrame ==
    [][ /\ (~Completed("write") => report = <<>>)
        /\ (report' # report => node = "write" /\ Completed("write")')
        /\ (node \in {"research", "tools", "curate", "publish"} => report' = report) ]_vars

C17_Witness ==
    /\ node = "END"
    /\ report # <<>>
    /\ Completed("tools")
    /\ pdf_exists
\* C18: the merge is the sole writer of the state: a stage changes nothing
\* of the state it was given while it runs, so documents (its keys and its
\* records) changes only in the step that merges the update of a stage
\* returning a documents field, which only the tools stage does.
C18_MergeSoleWriter ==
    [][ documents' # documents => (node = "tools" /\ stages' = Append(stages, "tools")) ]_vars
(***************************************************************************)
(* The order of the stages.                                                *)
(***************************************************************************)
\* The stages that may run right after a stage, by the edges of the graph:
\* research (tools research)* curate write publish END.
After(stage) ==
    CASE stage = "research" -> {"tools", "curate"}
      [] stage = "tools" -> {"research"}
      [] stage = "curate" -> {"write"}
      [] stage = "write" -> {"publish"}
      [] stage = "publish" -> {"END"}

Times(stage) == Cardinality({ i \in 1..Len(stages) : stages[i] = stage })

\* C19: the stages run in the order research (tools research)* curate write
\* publish END: a run starts at research, each completed stage is followed
\* by a stage the order allows (tools always by research), the stage to run
\* next is one the order allows (a run can end early only by an exception
\* out of the tools stage), curate, write and publish complete at most once,
\* and exactly once each, in this order, when the run has reached END.
C19_StageOrder ==
    /\ stages = <<>> => node = "research"
    /\ stages # <<>> =>
          /\ stages[1] = "research"
          /\ \A i \in 1..(Len(stages) - 1) : stages[i + 1] \in After(stages[i])
          /\ node \in After(Last(stages)) \cup (IF Last(stages) = "research" THEN {"aborted"} ELSE {})
    /\ \A stage \in {"curate", "write", "publish"} : Times(stage) <= 1
    /\ node = "END" =>
          /\ Len(stages) >= 4
          /\ SubSeq(stages, Len(stages) - 2, Len(stages)) = <<"curate", "write", "publish">>

C19_Witness ==
    /\ node = "END"
    /\ stages = <<"research", "tools", "research", "tools", "research",
                  "curate", "write", "publish">>
(***************************************************************************)
(* The write stage with nothing selected.                                  *)
(***************************************************************************)
\* C20, as stated: when the write stage has run with RAG_docs empty, the run
\* has not aborted and report is not empty, the synthesis model having
\* returned an answer or raised.
C20_FallbackReport_AsStated ==
    (Completed("write") /\ RAG_docs = EmptyMap) =>
        /\ node # "aborted"
        /\ report # <<>>

\* C20: when the write stage has run with RAG_docs empty, the run has not
\* aborted; report is not empty if the synthesis model returned an answer,
\* and report is still empty if the model raised.
C20_FallbackReport ==
    (Completed("write") /\ RAG_docs = EmptyMap) =>
        /\ node # "aborted"
        /\ write_outcome \in {"returned", "raised"}
        /\ write_outcome = "returned" => report # <<>>
        /\ write_outcome = "raised" => report = <<>>

C20_Witness ==
    /\ Completed("write")
    /\ chose_unknown
    /\ RAG_docs = EmptyMap
    /\ documents # EmptyMap
    /\ write_outcome = "returned"
    /\ report = <<Block("heading", "### Citations")>>
(***************************************************************************)
(* How a run ends.                                                         *)
(***************************************************************************)
PdfFailures == { PdfMessage("no report content"),
                 PdfMessage("error generating pdf"),
                 PdfMessage("output file not found") }

\* C21: a run that has reached END ended in one of two ways: the report is
\* not empty, the document was rendered and the publish stage's message is
\* the success record; or no document was rendered and the publish stage's
\* message is a failure record.  A rendered document never goes with an
\* empty report.
C21_OutcomeDichotomy ==
    /\ pdf_exists => report # <<>>
    /\ node = "END" =>
          \/ /\ report # <<>>
             /\ pdf_exists
             /\ Last(messages) = PdfMessage("pdf generated")
          \/ /\ ~pdf_exists
             /\ Last(messages) \in PdfFailures
\* C22: an error of the decision stage never aborts the run: when the
\* research model raises, or returns a tool call that names no registered
\* tool or has invalid arguments, a fallback message takes its place and the
\* run goes on to the next stage; no run is ever aborted.
C22_NeverAborts == node # "aborted"
(***************************************************************************)
(* Searches that find nothing.                                             *)
(***************************************************************************)
TheToolCalls == Last(messages).tool_calls

\* C23: an empty or failed search is not fatal.  A failed sub-query counts as
\* an empty list.  The step that serves a tool call whose search returned the
\* empty list leaves documents as it was and does not end the run; and when
\* every tool call of an execution has been served with the empty list, or
\* there was no tool call, the tools stage returns, documents is what it
\* was, iteration is one more and the research stage runs next.
C23_EmptySearch ==
    [][ /\ (node = "tools" /\ tc_idx' = tc_idx + 1 /\ all_empty') =>
              /\ documents' = documents
              /\ docs_str' = <<>>
              /\ node' = "tools"
        /\ (node = "tools" /\ all_empty /\ tc_idx > Len(TheToolCalls)) =>
              /\ node' = "research"
              /\ documents' = documents
              /\ iteration' = iteration + 1
              /\ toolsRuns' = toolsRuns + 1 ]_vars

C23_Witness ==
    /\ node = "research"
    /\ all_empty
    /\ Len(messages) = 2
    /\ \A i \in 1..2 : messages[i] = ToolMessage(<<Word("found", "title")>>)
    /\ documents # EmptyMap
    /\ iteration = 2
(***************************************************************************)
(* The cost of a guarded call.                                             *)
(***************************************************************************)
\* C24, as stated: the estimate of a text is its character count divided by
\* 3.5 and rounded up, at least 1: the least e >= 1 with 3.5 * e >= chars.
C24_EstimateCost_AsStated ==
    est_total # -1 =>
      /\ \A i \in 1..Len(est_chars) :
            /\ est_parts[i] >= 1
            /\ 35 * est_parts[i] >= 10 * est_chars[i]
            /\ est_parts[i] > 1 => 35 * (est_parts[i] - 1) < 10 * est_chars[i]
      /\ est_total = Sum(est_parts)
                       + (IF est_max_tokens.given THEN est_max_tokens.value ELSE 2000)

\* C24: the estimate of a text is its character count divided by 3.5 with
\* the fraction cut off (rounded down), at least 1: the greatest e with
\* 3.5 * e <= chars, or 1 when that is 0.  The total passed to consume is
\* the sum of the estimates of the messages plus max_tokens, 2000 when
\* max_tokens is not given.
C24_EstimateCost ==
    est_total # -1 =>
      /\ Len(est_parts) = Len(est_chars)
      /\ \A i \in 1..Len(est_chars) :
            /\ est_parts[i] >= 1
            /\ est_parts[i] > 1 => 35 * est_parts[i] <= 10 * est_chars[i]
            /\ 35 * (est_parts[i] + 1) > 10 * est_chars[i]
      /\ est_total = Sum(est_parts)
                       + (IF est_max_tokens.given THEN est_max_tokens.value ELSE 2000)

C24_Witness ==
    /\ est_chars = <<4, 0>>
    /\ est_parts = <<1, 1>>
    /\ ~est_max_tokens.given
    /\ est_total = 2002
(***************************************************************************)
(* rate_limited_execute.                                                   *)
(***************************************************************************)
\* C25: no refund on failure: a caller's model_call starts only in the step
\* in which its consume returns, with its tokens taken; and the step in
\* which the model_call ends, raising or returning, leaves tokens and
\* last_update as they are; a raised exception is the outcome of
\* rate_limited_execute.
C25_NoRefund ==
    [][ \A p \in Callers :
          /\ (p \notin in_call /\ p \in in_call') =>
                /\ Admitted(p) \/ Woken(p)
                /\ cpc'[p] = "idle"
                /\ tokens' = IF Woken(p) THEN 0 ELSE refilled' - ccost[p]
          /\ (p \in in_call /\ p \notin in_call') =>
                /\ tokens' = tokens
                /\ last_update' = last_update
                /\ last_outcome' \in {"raised", "returned"} ]_vars

C25_Witness ==
    /\ last_outcome = "raised"
    /\ in_call = {}
    /\ last_return = [cost |-> capacity, at |-> now, slept |-> FALSE]
    /\ tokens = 0
    /\ last_update = now
(***************************************************************************)
(* The bounds of the loop.                                                 *)
(***************************************************************************)
\* C26: in every reachable state iteration is at most 5, the tools stage has
\* executed at most 5 times and the research stage at most 6 times, whatever
\* the research model returned: tool calls, the completion phrase, neither,
\* or an error that was replaced by the fallback message.
C26_BoundedLoop ==
    /\ iteration <= 5
    /\ toolsRuns <= 5
    /\ researchRuns <= 6
    /\ Times("tools") <= 5
    /\ Times("research") <= 6

C26_Witness ==
    /\ node = "curate"
    /\ iteration = 5
    /\ Times("tools") = 5
    /\ Times("research") = 6
    /\ Last(messages) = ResearchError
    /\ ~allToolCalls
(***************************************************************************)
(* The lock and the rate.                                                  *)
(***************************************************************************)
\* C27: the lock is held across the sleep of the slow path: while a caller
\* sleeps it holds the lock, no other caller gets past the lock, whatever
\* its cost, and tokens and last_update change only when the sleeper wakes;
\* the callers get past the lock one at a time.
C27_LockAcrossSleep ==
    [][ /\ \A p \in Sleeping :
              /\ lock = p
              /\ \A q \in Callers \ {p} : ~Admitted(q)
              /\ (tokens' # tokens \/ last_update' # last_update) => Woken(p)
        /\ Cardinality({ q \in Callers : Admitted(q) }) <= 1 ]_vars

C27_Witness ==
    \E p, q \in Callers :
        /\ cpc[p] = "sleeping"
        /\ cpc[q] = "waiting"
        /\ ccost[q] > 0
        /\ ccost[q] <= tokens
        /\ now > sleep_from[p]
        /\ now < sleep_from[p] + wait_time[p]
\* C28: the rate bound: at every instant the costs of all the calls that
\* have returned since the bucket was created add up to at most
\* capacity + refill_rate * (the time since then), with a clock that never
\* goes back and sleeps that last at least as long as asked.
C28_RateBound ==
    admitted * TicksPerSecond <= capacity * TicksPerSecond + refill_rate * now

\* The bound is met exactly, by a call that slept.
C28_Witness ==
    /\ admitted * TicksPerSecond = capacity * TicksPerSecond + refill_rate * now
    /\ last_return.slept
    /\ last_return.at = now
    /\ last_return.cost > capacity
    /\ tokens = 0
(***************************************************************************)
(* Curation whose extraction fails.                                        *)
(***************************************************************************)
\* C29: when the curation model returned a selection and the extraction
\* then raised, the curate stage returned only the error message: RAG_docs
\* is what it was before curation, empty, the selection is lost, the run is
\* not aborted and the write stage ran or runs next.
C29_ExtractionFailure ==
    curate_outcome = "extract_raised" =>
      /\ RAG_docs = EmptyMap
      /\ node \in {"write", "publish", "END"}
      /\ node = "write" => messages = <<CurateError>>
      /\ Times("curate") = 1

C29_Witness ==
    /\ curate_outcome = "extract_raised"
    /\ node = "write"
    /\ ~chose_unknown
    /\ documents # EmptyMap
    /\ RAG_docs = EmptyMap
====
